---------------------------- MODULE Spec2Model ----------------------------
(***************************************************************************)
(* Model of the sports-prediction backend: src/server.js (the canonical    *)
(* variant: blender, market derivers, presenter, validation, error         *)
(* handler) and the API-Sports variants src/unnamed/part_000..part_002.    *)
(*                                                                         *)
(* Numbers.  The code computes in IEEE doubles and rounds with Math.round  *)
(* (half towards +infinity).  Every product below is modelled as the exact *)
(* rational, rounded the same way; where the double product of the code    *)
(* falls just under an exact tie, the inputs are listed (RoundsDown07,     *)
(* RoundsDown11, RoundsDown5545) and the result is one less, as in the     *)
(* code.                                                                   *)
(***************************************************************************)
EXTENDS Integers, Sequences, FiniteSets, TLC

VARIABLES
    stage,         \* sweeps: "input" until the swept function ran, then "done"
    defaults,      \* pipeline: the baseline anchors handed to the blender
    experts,       \* pipeline: the expert provider's anchors
    adjusted,      \* pipeline: adjustProbabilities' result, or None
    markets,       \* pipeline: [totals, firstHalf, fulltime] derived, or None
    prediction,    \* pipeline: the response body built from adjusted, or None
    probPercent,   \* odds: the pair of arguments given to makeOdds
    odds,          \* odds: the pair of strings makeOdds returned, or None
    variant,       \* service: which file of the repository is running
    pc,            \* service: per request, where its handling stands
    req,           \* service: per request, req.body
    loc,           \* service: per request, the handler's local variables
    err,           \* service: per request, the error given to next(err)
    res,           \* service: per request, the response sent
    trace          \* service: per request, the calls made while handling it

pipeVars == <<defaults, experts, adjusted, markets, prediction>>
oddsVars == <<probPercent, odds>>
sweepVars == <<stage, defaults, experts, adjusted, markets, prediction,
               probPercent, odds>>
serviceVars == <<variant, pc, req, loc, err, res, trace>>
vars == <<stage, defaults, experts, adjusted, markets, prediction, probPercent,
          odds, variant, pc, req, loc, err, res, trace>>

None == "none"

(***************************************************************************)
(* Bounds of the model.                                                    *)
(***************************************************************************)
\* How far outside [0,100] a provider's anchor may lie in the sweeps.
Over == 10
\* Requests the server.js service handles, concurrently, in one run.
MaxReq == 2
\* Requests an API-Sports variant handles in one run.
MaxApiReq == 1

AnchorRange == (0 - Over) .. (100 + Over)
Percent == 0 .. 100

(***************************************************************************)
(* Arithmetic of the code.                                                 *)
(***************************************************************************)
Max(a, b) == IF a >= b THEN a ELSE b
Min(a, b) == IF a <= b THEN a ELSE b

\* Math.round(num/den) for den > 0: the nearest integer, a tie going up.
Round(num, den) == (2 * num + den) \div (2 * den)

\* x * 0.7 in doubles is just under the tie for these x (45 * 0.7 = 31.499...).
RoundsDown07 == {45, 85}
\* x * 1.1 in doubles is just under the tie for these x.
RoundsDown11 == {-55, -45, -25}
\* Math.round(x * 0.7), Math.round(x * 1.1), Math.round(x * 0.9), ...
RoundMul07(x) == Round(7 * x, 10) - (IF x \in RoundsDown07 THEN 1 ELSE 0)
RoundMul11(x) == Round(11 * x, 10) - (IF x \in RoundsDown11 THEN 1 ELSE 0)
RoundMul09(x) == Round(9 * x, 10)
RoundMul12(x) == Round(12 * x, 10)
RoundMul105(x) == Round(105 * x, 100)
RoundMul092(x) == Round(92 * x, 100)
\* Math.round(100 - x * 0.92)
Round100Minus092(x) == Round(10000 - 92 * x, 100)

(***************************************************************************)
(* Utilities: pct, suggest, makeOdds (server.js 81-90).                    *)
(***************************************************************************)
\* String(n) followed by "%", for the percentages pct can print.
PctTable == [n \in Percent |-> ToString(n) \o "%"]
IsPct(s) == \E n \in Percent : PctTable[n] = s
PctValue(s) == CHOOSE n \in Percent : PctTable[n] = s

\* pct without its clamp: the argument is printed as it comes.
pctRaw(n) == ToString(n) \o "%"

\* pct(n) for an integer n: clamp to [0,100], then format as "<n>%".
pct(n) == PctTable[Max(0, Min(100, n))]

\* suggest with its first threshold exclusive.
suggestStrict(p) == IF p > 70 THEN "High" ELSE IF p >= 50 THEN "Medium" ELSE "Low"

suggest(p) == IF p >= 70 THEN "High" ELSE IF p >= 50 THEN "Medium" ELSE "Low"

\* Number.prototype.toFixed(2) of the value h/100, h >= 0.
toFixed2(h) ==
    ToString(h \div 100) \o "." \o ToString((h % 100) \div 10) \o ToString(h % 10)

\* The strings toFixed(2) yields for 0.00 .. 12.00; also reads a string back.
Fixed2Table == [h \in 0 .. 1200 |-> toFixed2(h)]
IsFixed2(s) == \E h \in DOMAIN Fixed2Table : Fixed2Table[h] = s
Hundredths(s) == CHOOSE h \in DOMAIN Fixed2Table : Fixed2Table[h] = s

\* makeOdds cutting the inverse after two decimals instead of rounding it.
makeOddsTruncated(probPercent_) ==
    LET p == Max(1, Min(99, probPercent_))
    IN  Fixed2Table[Max(110, Min(1000, 10000 \div p))]

\* makeOdds without the lower cap of 1.1 on the decimal odds.
makeOddsNoFloor(probPercent_) ==
    LET p == Max(1, Min(99, probPercent_))
    IN  Fixed2Table[Min(1000, Round(10000, p))]

\* makeOdds: p clamped to [1,99], 1/(p/100) capped to [1.1, 10.0], 2 decimals.
\* The hundredths of the capped quotient are Round(10000, p) capped to
\* [110, 1000] (the only exact tie, p = 32, is the double 3.125 and goes up).
makeOdds(probPercent_) ==
    LET p == Max(1, Min(99, probPercent_))
    IN  Fixed2Table[Max(110, Min(1000, Round(10000, p)))]

(***************************************************************************)
(* Providers (server.js 39-56, 242-251).                                   *)
(***************************************************************************)
MarketKeys ==
    {"homeWin", "draw", "awayWin", "btts", "over25", "firstHalfGoals",
     "cornersHigh", "cardsHigh"}

\* The expert provider's key for a market key.
ExpertKey(k) ==
    CASE k = "homeWin" -> "expert_win"
      [] k = "draw" -> "expert_draw"
      [] k = "awayWin" -> "expert_away"
      [] k = "btts" -> "expert_btts"
      [] k = "over25" -> "expert_over25"
      [] k = "firstHalfGoals" -> "expert_first_half_goals"
      [] k = "cornersHigh" -> "expert_corners_high"
      [] k = "cardsHigh" -> "expert_cards_high"

ExpertNotes ==
    <<"Pressing intensity suggests open transitions.",
      "Set-piece threat elevates corner totals.",
      "Midfield duels increase booking risk.">>

\* fetchExpertData keeping a count across requests: its win anchor drifts with
\* the number of requests already answered.
fetchExpertDataDrifting(home, away, league) ==
    [expert_win |-> 36 + 10 * Cardinality({r \in DOMAIN pc : pc[r] = "done"}),
     expert_draw |-> 29, expert_away |-> 35,
     expert_btts |-> 66, expert_over25 |-> 59, expert_first_half_goals |-> 52,
     expert_corners_high |-> 45, expert_cards_high |-> 58,
     expert_notes |-> ExpertNotes]

\* A provider whose home-win value depends on the league it is asked about.
fetchExpertDataByLeague(home, away, league) ==
    [expert_win |-> IF league = "La Liga" THEN 46 ELSE 36,
     expert_draw |-> 29, expert_away |-> 35,
     expert_btts |-> 66, expert_over25 |-> 59, expert_first_half_goals |-> 52,
     expert_corners_high |-> 45, expert_cards_high |-> 58,
     expert_notes |-> ExpertNotes]

\* fetchExpertData: the stub ignores its arguments.
fetchExpertData(home, away, league) ==
    [expert_win |-> 36, expert_draw |-> 29, expert_away |-> 35,
     expert_btts |-> 66, expert_over25 |-> 59, expert_first_half_goals |-> 52,
     expert_corners_high |-> 45, expert_cards_high |-> 58,
     expert_notes |-> ExpertNotes]

\* The baseline AI anchors of the /predict handler.
aiBase ==
    [homeWin |-> 31, draw |-> 29, awayWin |-> 40, btts |-> 65, over25 |-> 58,
     firstHalfGoals |-> 50, cornersHigh |-> 42, cardsHigh |-> 58]

(***************************************************************************)
(* Blender (server.js 61-76).                                              *)
(***************************************************************************)
\* blend with the expert weight mistyped as 0.6: the weights sum to 1.2.
blendWeightsOff(m, e) == Round(6 * m + 6 * e, 10)

\* blend with the weights of the two sources swapped.
blendSwapped(m, e) == Round(4 * m + 6 * e, 10)

\* blend(m, e) = Math.round(m * 0.6 + e * 0.4)
blend(m, e) == Round(6 * m + 4 * e, 10)

adjustProbabilities(defaults_, experts_) ==
    [homeWin |-> blend(defaults_.homeWin, experts_.expert_win),
     draw |-> blend(defaults_.draw, experts_.expert_draw),
     awayWin |-> blend(defaults_.awayWin, experts_.expert_away),
     btts |-> blend(defaults_.btts, experts_.expert_btts),
     over25 |-> blend(defaults_.over25, experts_.expert_over25),
     firstHalfGoals |->
         blend(defaults_.firstHalfGoals, experts_.expert_first_half_goals),
     cornersHigh |-> blend(defaults_.cornersHigh, experts_.expert_corners_high),
     cardsHigh |-> blend(defaults_.cardsHigh, experts_.expert_cards_high)]

(***************************************************************************)
(* Market derivers (server.js 95-135).  A goal line is its object key.     *)
(***************************************************************************)
TotalLines == <<"0.5", "1.5", "2.5", "3.5", "4.5", "5.5">>
FirstHalfLines == <<"0.5", "1.5">>
Range(seq) == {seq[i] : i \in DOMAIN seq}

\* The Over mapping of deriveTotals.
totalsOver(over25) ==
    [l \in Range(TotalLines) |->
        CASE l = "0.5" -> Max(70, over25 + 12)
          [] l = "1.5" -> Max(62, over25 + 4)
          [] l = "2.5" -> over25
          [] l = "3.5" -> Max(32, over25 - 26)
          [] l = "4.5" -> Max(22, over25 - 36)
          [] l = "5.5" -> Max(14, over25 - 44)]

deriveTotals(adjusted_) ==
    LET over == totalsOver(adjusted_.over25)
    IN  [over |-> over,
         under |-> [l \in DOMAIN over |-> Max(0, 100 - over[l])]]

deriveFirstHalf(adjusted_) ==
    LET fh == adjusted_.firstHalfGoals
        over == [l \in Range(FirstHalfLines) |->
                    IF l = "0.5" THEN Max(58, fh + 6) ELSE Max(46, fh - 6)]
    IN  [over |-> over,
         under |-> [l \in DOMAIN over |-> Max(0, 100 - over[l])],
         fh1x2 |-> [home |-> RoundMul09(adjusted_.homeWin),
                    draw |-> RoundMul12(adjusted_.draw),
                    away |-> RoundMul09(adjusted_.awayWin)]]

\* deriveFulltime without the clamp of the double-chance sums.
deriveFulltimeUnclamped(adjusted_) ==
    LET oneX2 == [home |-> adjusted_.homeWin, draw |-> adjusted_.draw,
                  away |-> adjusted_.awayWin]
    IN  [oneX2 |-> oneX2,
         dc |-> [k \in {"1X", "X2", "12"} |->
                    CASE k = "1X" -> oneX2.home + oneX2.draw
                      [] k = "X2" -> oneX2.draw + oneX2.away
                      [] k = "12" -> oneX2.home + oneX2.away]]

deriveFulltime(adjusted_) ==
    LET oneX2 == [home |-> adjusted_.homeWin, draw |-> adjusted_.draw,
                  away |-> adjusted_.awayWin]
    IN  [oneX2 |-> oneX2,
         dc |-> [k \in {"1X", "X2", "12"} |->
                    CASE k = "1X" -> Max(0, Min(100, oneX2.home + oneX2.draw))
                      [] k = "X2" -> Max(0, Min(100, oneX2.draw + oneX2.away))
                      [] k = "12" -> Max(0, Min(100, oneX2.home + oneX2.away))]]

(***************************************************************************)
(* Combination markets (server.js 140-225).                                *)
(***************************************************************************)
DcKeys == <<"1X", "X2", "12">>
ComboLines == <<"1.5", "2.5", "3.5", "4.5", "5.5">>

\* One outcome entry.  note(text) returns its static text, which is left out.
Outcome(outcome, probability, oddsArg, suggestArg, market) ==
    [outcome |-> outcome, probability |-> probability,
     odds |-> makeOdds(oddsArg), market |-> market,
     suggestion |-> suggest(suggestArg)]

\* Pairs <<btts, over25>> whose btts*0.55 + over25*0.45 is an exact tie that the
\* double sum falls just under (within -20 .. 120).
RoundsDown5545 ==
    {<<-19, 11>>, <<-19, 51>>, <<-17, -7>>, <<-17, 13>>, <<-17, 33>>,
     <<-16, 14>>, <<-14, -4>>, <<-14, 16>>, <<-14, 36>>, <<-12, -2>>,
     <<-12, 18>>, <<-11, -1>>, <<-8, 2>>, <<-7, 3>>, <<-7, 23>>, <<-6, 4>>,
     <<-3, -13>>, <<-3, 7>>}

\* Math.round(dc*0.5 + x*0.5)
RoundHalves(a, b) == Round(a + b, 2)

\* `Double Chance ${key} + Over ${l}` and the other combo labels.
ComboLabel ==
    [key \in Range(DcKeys) |->
        [side \in {"Over", "Under", "BTTS"} |->
            [l \in Range(ComboLines) \cup {"Yes", "No"} |->
                "Double Chance " \o key \o " + " \o side \o " " \o l]]]

\* The "DC + Over/Under" entries: per key, per line, Over then Under.
dcGoalsCombos(dc, totals) ==
    [i \in 1 .. 30 |->
        LET key == DcKeys[((i - 1) \div 10) + 1]
            l == ComboLines[(((i - 1) % 10) \div 2) + 1]
            pOver == RoundHalves(dc[key], totals.over[l])
            pUnder == RoundHalves(dc[key], totals.under[l])
        IN  IF i % 2 = 1
            THEN Outcome(ComboLabel[key]["Over"][l],
                         pct(pOver), pOver, pOver, "double chance + goals")
            ELSE Outcome(ComboLabel[key]["Under"][l],
                         pct(pUnder), pUnder, pUnder, "double chance + goals")]

\* The "DC + BTTS" entries averaging the double chance with the blended btts
\* itself (Yes) and with 100 - btts (No).
dcBttsCombosOnBtts(dc, btts) ==
    LET pYes == btts
        pNo == Max(0, 100 - btts)
    IN  [i \in 1 .. 6 |->
            LET key == DcKeys[((i - 1) \div 2) + 1]
                pComboYes == RoundHalves(dc[key], pYes)
                pComboNo == RoundHalves(dc[key], pNo)
            IN  IF i % 2 = 1
                THEN Outcome(ComboLabel[key]["BTTS"]["Yes"],
                             pct(pComboYes), pComboYes, pComboYes,
                             "double chance + BTTS")
                ELSE Outcome(ComboLabel[key]["BTTS"]["No"],
                             pct(pComboNo), pComboNo, pComboNo,
                             "double chance + BTTS")]

\* The "DC + BTTS" entries: per key, Yes then No.
dcBttsCombos(dc, btts) ==
    LET pYes == Round(6 * btts + 240, 10)
        pNo == Max(0, 100 - pYes)
    IN  [i \in 1 .. 6 |->
            LET key == DcKeys[((i - 1) \div 2) + 1]
                pComboYes == RoundHalves(dc[key], pYes)
                pComboNo == RoundHalves(dc[key], pNo)
            IN  IF i % 2 = 1
                THEN Outcome(ComboLabel[key]["BTTS"]["Yes"],
                             pct(pComboYes), pComboYes, pComboYes,
                             "double chance + BTTS")
                ELSE Outcome(ComboLabel[key]["BTTS"]["No"],
                             pct(pComboNo), pComboNo, pComboNo,
                             "double chance + BTTS")]

\* BTTS + Over/Under 2.5 and "No Team To Score".
bttsGoalsCombos(totals, btts) ==
    LET over25 == totals.over["2.5"]
        under25 == totals.under["2.5"]
        bttsOver25 == Round(55 * btts + 45 * over25, 100)
                        - (IF <<btts, over25>> \in RoundsDown5545 THEN 1 ELSE 0)
        bttsUnder25 == Round(45 * btts + 55 * under25, 100)
        noTeamScore == Round(8 * Max(0, 100 - btts) + 2 * under25, 10)
    IN  <<Outcome("BTTS Yes + Over 2.5", pct(bttsOver25), bttsOver25,
                  bttsOver25, "BTTS + goals"),
          Outcome("BTTS Yes + Under 2.5", pct(bttsUnder25), bttsUnder25,
                  bttsUnder25, "BTTS + goals"),
          Outcome("No Team To Score", pct(noTeamScore), noTeamScore,
                  noTeamScore, "specials")>>

composeDoubleChanceCombos(dc, totals, btts) ==
    dcGoalsCombos(dc, totals) \o dcBttsCombos(dc, btts)
        \o bttsGoalsCombos(totals, btts)

(***************************************************************************)
(* Presenter: the tab arrays and the aggregate object of POST /predict     *)
(* (server.js 256-514).  The static texts (rationales, legend, scorers,    *)
(* scores, player specials) carry no number and are left out.              *)
(***************************************************************************)
\* An entry whose probability, odds and suggestion come from one expression.
Entry(outcome, p, market) == Outcome(outcome, pct(p), p, p, market)

goalsTab(adjusted_, totals) ==
    <<Entry("Over 0.5 Goals", totals.over["0.5"], "goals"),
      Entry("Under 0.5 Goals", totals.under["0.5"], "goals"),
      Entry("Over 1.5 Goals", totals.over["1.5"], "goals"),
      Entry("Under 1.5 Goals", totals.under["1.5"], "goals"),
      Entry("Over 2.5 Goals", totals.over["2.5"], "goals"),
      Entry("Under 2.5 Goals", totals.under["2.5"], "goals"),
      Entry("Over 3.5 Goals", totals.over["3.5"], "goals"),
      Entry("Under 3.5 Goals", totals.under["3.5"], "goals"),
      Entry("Over 4.5 Goals", totals.over["4.5"], "goals"),
      Entry("Under 4.5 Goals", totals.under["4.5"], "goals"),
      Entry("Over 5.5 Goals", totals.over["5.5"], "goals"),
      Entry("Under 5.5 Goals", totals.under["5.5"], "goals"),
      Entry("BTTS Yes", adjusted_.btts, "goals"),
      Entry("BTTS No", 100 - adjusted_.btts, "goals"),
      Outcome("Exactly 2 Goals", "25%", 25, 25, "goals"),
      Outcome("Exactly 3 Goals", "20%", 20, 20, "goals")>>

halftimeTab(adjusted_, firstHalf) ==
    LET fh == firstHalf.fh1x2
        h1X == Min(100, fh.home + fh.draw)
        hX2 == Min(100, fh.draw + fh.away)
    IN  <<Entry("1st Half Home", fh.home, "halftime 1X2"),
          Entry("1st Half Draw", fh.draw, "halftime 1X2"),
          Entry("1st Half Away", fh.away, "halftime 1X2"),
          Entry("1st Half 1X (Home or Draw)", h1X, "halftime double chance"),
          Entry("1st Half X2 (Draw or Away)", hX2, "halftime double chance"),
          Entry("1st Half Over 0.5 Goals", firstHalf.over["0.5"], "halftime goals"),
          Entry("1st Half Under 0.5 Goals", firstHalf.under["0.5"], "halftime goals"),
          Entry("1st Half Over 1.5 Goals", firstHalf.over["1.5"], "halftime goals"),
          Entry("1st Half Under 1.5 Goals", firstHalf.under["1.5"], "halftime goals"),
          Entry("1st Half BTTS Yes", RoundMul07(adjusted_.btts), "halftime BTTS"),
          Entry("1st Half BTTS No", RoundMul11(100 - adjusted_.btts),
                "halftime BTTS")>>

cornersTab(adjusted_) ==
    <<Entry("FT Over 9.5 Corners", adjusted_.cornersHigh, "corners total"),
      Entry("FT Under 9.5 Corners", 100 - adjusted_.cornersHigh, "corners total"),
      Outcome("1H Over 4.5 Corners", "49%", 49, 49, "corners halftime"),
      Outcome("1H Under 4.5 Corners", "51%", 51, 51, "corners halftime"),
      Outcome("Home Over 4.5 Corners", "51%", 51, 51, "corners team"),
      Outcome("Away Over 4.5 Corners", "47%", 47, 47, "corners team")>>

cardsTab(adjusted_) ==
    <<Entry("HT Over 1.5 Cards", RoundMul092(adjusted_.cardsHigh), "cards halftime"),
      Entry("HT Under 1.5 Cards", Round100Minus092(adjusted_.cardsHigh),
            "cards halftime"),
      Entry("FT Over 3.5 Cards", adjusted_.cardsHigh, "cards total"),
      Entry("FT Under 3.5 Cards", 100 - adjusted_.cardsHigh, "cards total"),
      Outcome("Player A booked", "40%", 40, 40, "player cards")>>

handicapsTab(fulltime) ==
    <<Entry("Asian Home -0.5", RoundMul105(fulltime.oneX2.home), "asian handicap"),
      Entry("Asian Away +0.5", RoundMul105(fulltime.oneX2.away), "asian handicap"),
      Outcome("Home -1 (European)", "33%", 33, 33, "european handicap"),
      Outcome("Away +1 (European)", "48%", 48, 48, "european handicap"),
      Outcome("Draw Handicap", "19%", 19, 19, "european handicap"),
      Entry("Double Chance 1X", fulltime.dc["1X"], "double chance"),
      Entry("Double Chance X2", fulltime.dc["X2"], "double chance"),
      Entry("Double Chance 12", fulltime.dc["12"], "double chance")>>

\* An entry of all.fulltime_result (no market).
ResultEntry(outcome, p) ==
    [outcome |-> outcome, probability |-> pct(p), odds |-> makeOdds(p),
     suggestion |-> suggest(p)]

\* prediction.all (server.js 356-419).
allSection(adjusted_, totals, firstHalf, fulltime, combos) ==
    LET fh == firstHalf.fh1x2
    IN  [fulltime_result |->
            <<ResultEntry("Home Win", fulltime.oneX2.home),
              ResultEntry("Draw", fulltime.oneX2.draw),
              ResultEntry("Away Win", fulltime.oneX2.away)>>,
         double_chance |-> [k \in DOMAIN fulltime.dc |-> pct(fulltime.dc[k])],
         over_under_goals |->
            [Over |-> [l \in DOMAIN totals.over |-> pct(totals.over[l])],
             Under |-> [l \in DOMAIN totals.under |-> pct(totals.under[l])]],
         halftime_markets |->
            [h1x2 |-> [Home |-> pct(fh.home), Draw |-> pct(fh.draw),
                       Away |-> pct(fh.away)],
             double_chance |->
                [k \in {"1X", "X2"} |->
                    IF k = "1X" THEN pct(Min(100, fh.home + fh.draw))
                    ELSE pct(Min(100, fh.draw + fh.away))],
             Over |-> [l \in DOMAIN firstHalf.over |-> pct(firstHalf.over[l])],
             Under |-> [l \in DOMAIN firstHalf.under |-> pct(firstHalf.under[l])],
             btts |-> [Yes |-> pct(RoundMul07(adjusted_.btts)),
                       No |-> pct(RoundMul11(100 - adjusted_.btts))]],
         corners |->
            [ft_over_9_5 |-> pct(adjusted_.cornersHigh),
             ft_under_9_5 |-> pct(100 - adjusted_.cornersHigh),
             h1_over_4_5 |-> "49%", h1_under_4_5 |-> "51%",
             home_over_4_5 |-> "51%", away_over_4_5 |-> "47%"],
         cards |->
            [ht_over_1_5 |-> pct(RoundMul092(adjusted_.cardsHigh)),
             ht_under_1_5 |-> pct(Round100Minus092(adjusted_.cardsHigh)),
             ft_over_3_5 |-> pct(adjusted_.cardsHigh),
             ft_under_3_5 |-> pct(100 - adjusted_.cardsHigh)],
         handicap |->
            [asian_home |-> pct(RoundMul105(fulltime.oneX2.home)),
             asian_away |-> pct(RoundMul105(fulltime.oneX2.away)),
             home_minus_1 |-> "33%", away_plus_1 |-> "48%",
             draw_handicap |-> "19%"],
         combos |->
            [i \in DOMAIN combos |->
                [outcome |-> combos[i].outcome,
                 probability |-> combos[i].probability,
                 odds |-> combos[i].odds, market |-> combos[i].market,
                 suggestion |-> combos[i].suggestion]]]

\* The body of the 200 response (server.js 256-514).
buildPrediction(homeTeam, awayTeam, league, adjusted_, expertData) ==
    LET totals == deriveTotals(adjusted_)
        firstHalf == deriveFirstHalf(adjusted_)
        fulltime == deriveFulltime(adjusted_)
        combos == composeDoubleChanceCombos(fulltime.dc, totals, adjusted_.btts)
    IN  [match |-> homeTeam \o " vs " \o awayTeam \o " (" \o league \o ")",
         source |-> "Blended AI model + expert consensus",
         all |-> allSection(adjusted_, totals, firstHalf, fulltime, combos),
         popular |->
            [over_2_5_goals |-> pct(totals.over["2.5"]),
             btts |-> "Yes (" \o pct(adjusted_.btts) \o ")"],
         bookings |->
            [halftime |->
                [Over_1_5 |-> pct(RoundMul092(adjusted_.cardsHigh)),
                 Under_1_5 |-> pct(Round100Minus092(adjusted_.cardsHigh))],
             fulltime |->
                [Over_3_5 |-> pct(adjusted_.cardsHigh),
                 Under_3_5 |-> pct(100 - adjusted_.cardsHigh)]],
         goals_detail |->
            [team_goals |-> [Home_Over_1_5 |-> "62%", Away_Over_1_5 |-> "55%"],
             exact_goals |-> [Exactly_2 |-> "25%", Exactly_3 |-> "20%"],
             btts |-> "Yes (" \o pct(adjusted_.btts) \o ")"],
         halves |-> [halftime_goals |-> [Over_1_5 |-> "48%", Under_1_5 |-> "52%"]],
         corners_detail |->
            [total |-> [Over_9_5 |-> pct(adjusted_.cornersHigh),
                        Under_9_5 |-> pct(100 - adjusted_.cornersHigh)],
             team |-> [Home_Over_4_5 |-> "51%", Away_Over_4_5 |-> "47%"],
             handicap |-> [Home_plus_2 |-> "55%", Away_plus_2 |-> "45%"]],
         handicaps_detail |->
            [asian |-> [Home_minus_1 |-> "33%", Away_plus_1 |-> "48%"],
             european |-> [Home_win_by_2 |-> "22%"]],
         teams |->
            [totals |-> [Home_goals |-> "62%", Away_goals |-> "55%"],
             clean_sheet |-> [Home |-> "40%", Away |-> "35%"]],
         goals |-> goalsTab(adjusted_, totals),
         halftime |-> halftimeTab(adjusted_, firstHalf),
         corners |-> cornersTab(adjusted_),
         cards |-> cardsTab(adjusted_),
         handicaps |-> handicapsTab(fulltime),
         combos |-> combos,
         expert_notes |-> expertData.expert_notes]

(***************************************************************************)
(* The sweeps below run no service, and the services run no sweep.         *)
(***************************************************************************)
NoService ==
    /\ variant = None
    /\ pc = <<>> /\ req = <<>> /\ loc = <<>> /\ err = <<>> /\ res = <<>>
    /\ trace = <<>>

NoSweep ==
    /\ stage = None
    /\ defaults = None /\ experts = None /\ adjusted = None
    /\ markets = None /\ prediction = None
    /\ probPercent = None /\ odds = None

(***************************************************************************)
(* Pipeline sweep: the blender, the derivers and the presenter applied to  *)
(* provider anchors drawn from AnchorRange.  The keys of one set of Sweeps *)
(* take the drawn baseline value m and expert value e; the other keys keep *)
(* the values of the code's providers.                                     *)
(***************************************************************************)
ResultKeys == {"homeWin", "draw", "awayWin"}

Sweeps ==
    {{k} : k \in MarketKeys}
        \cup {ResultKeys \ {k} : k \in ResultKeys}
        \cup {ResultKeys, MarketKeys}

SweptDefaults(S, m) == [k \in MarketKeys |-> IF k \in S THEN m ELSE aiBase[k]]

SweptExperts(S, e) ==
    LET stub == fetchExpertData("Burnley", "Chelsea", "Premier League")
        v(k) == IF k \in S THEN e ELSE stub[ExpertKey(k)]
    IN  [expert_win |-> v("homeWin"), expert_draw |-> v("draw"),
         expert_away |-> v("awayWin"), expert_btts |-> v("btts"),
         expert_over25 |-> v("over25"),
         expert_first_half_goals |-> v("firstHalfGoals"),
         expert_corners_high |-> v("cornersHigh"),
         expert_cards_high |-> v("cardsHigh"),
         expert_notes |-> stub.expert_notes]

InitPipeline ==
    /\ stage = "input"
    /\ \E S \in Sweeps, m \in AnchorRange, e \in AnchorRange :
          /\ defaults = SweptDefaults(S, m)
          /\ experts = SweptExperts(S, e)
    /\ adjusted = None /\ markets = None /\ prediction = None
    /\ probPercent = None /\ odds = None
    /\ NoService

\* The blender and the three derivers, as the handler runs them once the
\* expert data is there (server.js 254-258).
Derive ==
    /\ stage = "input" /\ stage' = "done"
    /\ adjusted' = adjustProbabilities(defaults, experts)
    /\ markets' = [totals |-> deriveTotals(adjusted'),
                   firstHalf |-> deriveFirstHalf(adjusted'),
                   fulltime |-> deriveFulltime(adjusted')]
    /\ UNCHANGED <<defaults, experts, prediction, oddsVars, serviceVars>>

NextPipeline == Derive

SpecPipeline == InitPipeline /\ [][NextPipeline]_vars

(***************************************************************************)
(* Prediction sweep: the whole synchronous run of the handler, response    *)
(* body included.  The expert either agrees with the baseline on the swept *)
(* keys or sits at one end of AnchorRange.                                 *)
(***************************************************************************)
InitPredict ==
    /\ stage = "input"
    /\ \E S \in Sweeps, m \in AnchorRange :
          \E e \in {m, 0 - Over, 100 + Over} :
              /\ defaults = SweptDefaults(S, m)
              /\ experts = SweptExperts(S, e)
    /\ adjusted = None /\ markets = None /\ prediction = None
    /\ probPercent = None /\ odds = None
    /\ NoService

\* server.js 254-514 for the request of the end-to-end scenario.
Predict ==
    /\ stage = "input" /\ stage' = "done"
    /\ adjusted' = adjustProbabilities(defaults, experts)
    /\ markets' = [totals |-> deriveTotals(adjusted'),
                   firstHalf |-> deriveFirstHalf(adjusted'),
                   fulltime |-> deriveFulltime(adjusted')]
    /\ prediction' = [status |-> 200,
                       body |-> buildPrediction("Burnley", "Chelsea",
                                                "Premier League", adjusted',
                                                experts)]
    /\ UNCHANGED <<defaults, experts, oddsVars, serviceVars>>

NextPredict == Predict

SpecPredict == InitPredict /\ [][NextPredict]_vars

\* The anchors of both providers are percentages.
ValidAnchors ==
    /\ \A k \in MarketKeys : defaults[k] \in Percent
    /\ \A k \in MarketKeys : experts[ExpertKey(k)] \in Percent

\* C1: for baseline and expert anchors in [0,100], each of the eight blended
\* values is in [0,100] and lies between the smaller and the larger of the
\* two inputs of its key.
C1_BlendBetweenInputs ==
    (stage = "done" /\ ValidAnchors) =>
        \A k \in MarketKeys :
            /\ adjusted[k] \in Percent
            /\ adjusted[k] >= Min(defaults[k], experts[ExpertKey(k)])
            /\ adjusted[k] <= Max(defaults[k], experts[ExpertKey(k)])

\* C1 witness: a blend of two different valid anchors that had to be rounded.
C1_Witness ==
    /\ stage = "done" /\ ValidAnchors
    /\ defaults.homeWin = 0 /\ experts.expert_win = 100
    /\ adjusted.homeWin = 40
    /\ defaults.draw = 29 /\ experts.expert_draw = 29 /\ adjusted.draw = 29

\* C3: for valid anchors, every derived goal line (six full-time lines from
\* over25, two first-half lines from firstHalfGoals) has Under + Over = 100.
C3_UnderPlusOverIs100 ==
    (stage = "done" /\ ValidAnchors) =>
        /\ \A l \in Range(TotalLines) :
              markets.totals.over[l] + markets.totals.under[l] = 100
        /\ \A l \in Range(FirstHalfLines) :
              markets.firstHalf.over[l] + markets.firstHalf.under[l] = 100

\* C5: the double-chance values "1X", "X2" and "12" of deriveFulltime are each
\* in [0,100], also when the sum of the two blended values is above 100 or
\* below 0.
C5_DoubleChanceClamped ==
    stage = "done" =>
        \A k \in Range(DcKeys) : markets.fulltime.dc[k] \in Percent

\* C5 witness: home + draw is above 100 and "1X" is 100.
C5_Witness ==
    /\ stage = "done"
    /\ adjusted.homeWin + adjusted.draw > 100
    /\ markets.fulltime.dc["1X"] = 100
    /\ markets.fulltime.oneX2.home = adjusted.homeWin

\* The probability strings of a response body: the probability field of every
\* entry of the tab arrays, of the combos and of all.fulltime_result, and
\* every value of the percentage maps of all, popular, bookings and
\* corners_detail that is computed from an anchor.
EmittedProbabilities(body) ==
    LET ofSeq(q) == {q[i].probability : i \in DOMAIN q}
        ofMap(f) == {f[k] : k \in DOMAIN f}
        a == body.all
    IN  ofSeq(body.goals) \cup ofSeq(body.halftime) \cup ofSeq(body.corners)
            \cup ofSeq(body.cards) \cup ofSeq(body.handicaps)
            \cup ofSeq(body.combos) \cup ofSeq(a.fulltime_result)
            \cup ofSeq(a.combos) \cup ofMap(a.double_chance)
            \cup ofMap(a.over_under_goals.Over)
            \cup ofMap(a.over_under_goals.Under)
            \cup ofMap(a.halftime_markets.h1x2)
            \cup ofMap(a.halftime_markets.double_chance)
            \cup ofMap(a.halftime_markets.Over)
            \cup ofMap(a.halftime_markets.Under)
            \cup ofMap(a.halftime_markets.btts)
            \cup ofMap(a.corners) \cup ofMap(a.cards) \cup ofMap(a.handicap)
            \cup {body.popular.over_2_5_goals}
            \cup ofMap(body.bookings.halftime) \cup ofMap(body.bookings.fulltime)
            \cup ofMap(body.corners_detail.total)

\* C10: whatever integer anchors the providers supply, inside or outside
\* [0,100], every probability of the response is "<n>%" with n in 0..100 and
\* the response has status 200.
C10_ProbabilitiesClamped ==
    stage = "done" =>
        /\ prediction.status = 200
        /\ \A s \in EmittedProbabilities(prediction.body) : IsPct(s)

\* C10 witness: anchors below 0 and above 100 were blended and printed at the
\* two ends.
C10_Witness ==
    /\ stage = "done"
    /\ adjusted.cornersHigh > 100
    /\ prediction.status = 200
    /\ prediction.body.all.corners.ft_over_9_5 = "100%"
    /\ prediction.body.all.corners.ft_under_9_5 = "0%"

(***************************************************************************)
(* Odds sweep: makeOdds applied to a pair of integer arguments.            *)
(***************************************************************************)
InitOdds ==
    /\ stage = "input"
    /\ probPercent \in AnchorRange \X AnchorRange
    /\ odds = None
    /\ defaults = None /\ experts = None /\ adjusted = None
    /\ markets = None /\ prediction = None
    /\ NoService

MakeOdds ==
    /\ stage = "input" /\ stage' = "done"
    /\ odds' = <<makeOdds(probPercent[1]), makeOdds(probPercent[2])>>
    /\ UNCHANGED <<probPercent, pipeVars, serviceVars>>

NextOdds == MakeOdds

SpecOdds == InitOdds /\ [][NextOdds]_vars

\* C4: makeOdds(p) is non-increasing in p over all integers p, in and outside
\* [0,100], and every result is a 2-decimal string within [1.10, 10.00].
C4_OddsMonotoneBounded ==
    stage = "done" =>
        /\ IsFixed2(odds[1]) /\ IsFixed2(odds[2])
        /\ Hundredths(odds[1]) \in 110 .. 1000
        /\ Hundredths(odds[2]) \in 110 .. 1000
        /\ (probPercent[1] <= probPercent[2]
               => Hundredths(odds[1]) >= Hundredths(odds[2]))

\* C4 witness: an argument below 0 and one above 100 were priced, at the two caps.
C4_Witness ==
    /\ stage = "done"
    /\ probPercent[1] < 0 /\ probPercent[2] > 100
    /\ odds[1] = "10.00" /\ odds[2] = "1.10"

(***************************************************************************)
(* The HTTP service.  A request arrives with a JSON payload; express.json  *)
(* (server.js 13) either sets req.body to the parsed object or passes its  *)
(* error to the error handler; the route handler runs up to its first      *)
(* await, and again when the awaited promise settles.                      *)
(***************************************************************************)
\* A field the body does not have (undefined after destructuring).
Absent == "<absent>"

HomeTeams == {Absent, "", "Burnley"}
AwayTeams == {Absent, "", "Chelsea"}
Leagues == {Absent, "", "Premier League", "La Liga"}
Bodies == [homeTeam : HomeTeams, awayTeam : AwayTeams, league : Leagues]
NoBody == [homeTeam |-> Absent, awayTeam |-> Absent, league |-> Absent]

\* !v for a body field: undefined and the empty string are falsy.
Falsy(v) == v = Absent \/ v = ""

NoError == [raised |-> FALSE, status |-> 0, message |-> ""]
\* An error object; status 0 stands for no status property.
Error(status, message) == [raised |-> TRUE, status |-> status, message |-> message]

\* What express.json passes to next(err): a malformed body (400) or one over
\* the size limit (413).
ParserErrors ==
    {Error(400, "Unexpected token } in JSON at position 1"),
     Error(413, "request entity too large")}

NoResponse == [status |-> 0]
NoLocals == [expertData |-> None, adjusted |-> None]

\* The error handler answering 500 whatever the error carries.
errorHandlerAlways500(e) ==
    [status |-> 500,
     body |-> [success |-> FALSE,
               error |-> IF e.message # "" THEN e.message
                         ELSE "Internal Server Error"]]

\* The global error handler (server.js 523-528; part_000 212-215).
errorHandler(e) ==
    [status |-> IF e.status # 0 THEN e.status ELSE 500,
     body |-> [success |-> FALSE,
               error |-> IF e.message # "" THEN e.message
                         ELSE "Internal Server Error"]]

\* The validation of /predict checking the two teams only.
missingFieldsTeamsOnly(body) == Falsy(body.homeTeam) \/ Falsy(body.awayTeam)

\* The validation of /predict (server.js 234).
missingFields(body) ==
    Falsy(body.homeTeam) \/ Falsy(body.awayTeam) \/ Falsy(body.league)

MissingFieldsResponse ==
    [status |-> 400,
     body |-> [success |-> FALSE,
               error |-> "Missing required fields: homeTeam, awayTeam, league"]]

InitService(v, n, locals) ==
    /\ variant = v
    /\ pc = [r \in 1 .. n |-> "new"]
    /\ req = [r \in 1 .. n |-> NoBody]
    /\ loc = [r \in 1 .. n |-> locals]
    /\ err = [r \in 1 .. n |-> NoError]
    /\ res = [r \in 1 .. n |-> NoResponse]
    /\ trace = [r \in 1 .. n |-> <<>>]
    /\ NoSweep

\* express.json parsed the payload: the route handler is next.
Receive(r, b) ==
    /\ pc[r] = "new"
    /\ req' = [req EXCEPT ![r] = b]
    /\ pc' = [pc EXCEPT ![r] = "predict"]
    /\ UNCHANGED <<variant, loc, err, res, trace, sweepVars>>

\* express.json failed: its error goes to the error handler, which answers.
RejectBody(r, e) ==
    /\ pc[r] = "new"
    /\ err' = [err EXCEPT ![r] = e]
    /\ res' = [res EXCEPT ![r] = errorHandler(e)]
    /\ pc' = [pc EXCEPT ![r] = "done"]
    /\ UNCHANGED <<variant, req, loc, trace, sweepVars>>

\* The entry step without the return of its validation branch: the 400 is
\* sent and the handler goes on to the expert lookup.
PredictEntryNoReturn(r) ==
    /\ variant = "server" /\ pc[r] = "predict"
    /\ res' = IF missingFields(req[r])
              THEN [res EXCEPT ![r] = MissingFieldsResponse]
              ELSE res
    /\ loc' = [loc EXCEPT ![r].expertData =
                  fetchExpertData(req[r].homeTeam, req[r].awayTeam,
                                  req[r].league)]
    /\ trace' = [trace EXCEPT ![r] = Append(@, "fetchExpertData")]
    /\ pc' = [pc EXCEPT ![r] = "awaitExpert"]
    /\ UNCHANGED <<variant, req, err, sweepVars>>

\* POST /predict of server.js up to its await (server.js 230-253).
PredictEntry(r) ==
    /\ variant = "server" /\ pc[r] = "predict"
    /\ IF missingFields(req[r])
       THEN /\ res' = [res EXCEPT ![r] = MissingFieldsResponse]
            /\ pc' = [pc EXCEPT ![r] = "done"]
            /\ UNCHANGED <<loc, trace>>
       ELSE /\ loc' = [loc EXCEPT ![r].expertData =
                          fetchExpertData(req[r].homeTeam, req[r].awayTeam,
                                          req[r].league)]
            /\ trace' = [trace EXCEPT ![r] = Append(@, "fetchExpertData")]
            /\ pc' = [pc EXCEPT ![r] = "awaitExpert"]
            /\ UNCHANGED res
    /\ UNCHANGED <<variant, req, err, sweepVars>>

\* The resumed handler reading homeTeam, awayTeam and league from variables of
\* the module, which hold the body of the latest request received.
PredictResumeSharedBody(r) ==
    /\ variant = "server" /\ pc[r] = "awaitExpert"
    /\ LET a == adjustProbabilities(aiBase, loc[r].expertData)
           latest == CHOOSE q \in DOMAIN pc :
                        /\ pc[q] # "new"
                        /\ \A q2 \in DOMAIN pc : pc[q2] # "new" => q2 <= q
       IN  /\ loc' = [loc EXCEPT ![r].adjusted = a]
           /\ res' = [res EXCEPT ![r] =
                         [status |-> 200,
                          body |-> buildPrediction(req[latest].homeTeam,
                                                   req[latest].awayTeam,
                                                   req[latest].league, a,
                                                   loc[r].expertData)]]
    /\ trace' = [trace EXCEPT ![r] =
                    @ \o <<"adjustProbabilities", "deriveTotals",
                           "deriveFirstHalf", "deriveFulltime",
                           "composeDoubleChanceCombos", "res.json">>]
    /\ pc' = [pc EXCEPT ![r] = "done"]
    /\ UNCHANGED <<variant, req, err, sweepVars>>

\* POST /predict of server.js from the await to res.json (server.js 253-514).
PredictResume(r) ==
    /\ variant = "server" /\ pc[r] = "awaitExpert"
    /\ LET a == adjustProbabilities(aiBase, loc[r].expertData)
       IN  /\ loc' = [loc EXCEPT ![r].adjusted = a]
           /\ res' = [res EXCEPT ![r] =
                         [status |-> 200,
                          body |-> buildPrediction(req[r].homeTeam,
                                                   req[r].awayTeam,
                                                   req[r].league, loc'[r].adjusted,
                                                   loc[r].expertData)]]
    /\ trace' = [trace EXCEPT ![r] =
                    @ \o <<"adjustProbabilities", "deriveTotals",
                           "deriveFirstHalf", "deriveFulltime",
                           "composeDoubleChanceCombos", "res.json">>]
    /\ pc' = [pc EXCEPT ![r] = "done"]
    /\ UNCHANGED <<variant, req, err, sweepVars>>

Init == InitService("server", MaxReq, NoLocals)

Next ==
    \/ \E r \in DOMAIN pc, b \in Bodies : Receive(r, b)
    \/ \E r \in DOMAIN pc, e \in ParserErrors : RejectBody(r, e)
    \/ \E r \in DOMAIN pc : PredictEntry(r)
    \/ \E r \in DOMAIN pc : PredictResume(r)

Spec == Init /\ [][Next]_vars

\* The body of the end-to-end scenario.
BurnleyChelsea ==
    [homeTeam |-> "Burnley", awayTeam |-> "Chelsea", league |-> "Premier League"]

\* C2: the request Burnley v Chelsea (Premier League), handled with the baseline
\* anchors 31/29/40 and the expert provider's values, blends to homeWin 33,
\* draw 29, awayWin 38, the values the response reports as Home Win, Draw and
\* Away Win.
C2_BurnleyChelseaBlend ==
    \A r \in DOMAIN pc :
        (pc[r] = "done" /\ req[r] = BurnleyChelsea /\ ~err[r].raised) =>
            /\ res[r].status = 200
            /\ loc[r].adjusted.homeWin = 33
            /\ loc[r].adjusted.draw = 29
            /\ loc[r].adjusted.awayWin = 38
            /\ LET ft == res[r].body.all.fulltime_result
               IN  /\ ft[1].outcome = "Home Win" /\ ft[1].probability = "33%"
                   /\ ft[2].outcome = "Draw" /\ ft[2].probability = "29%"
                   /\ ft[3].outcome = "Away Win" /\ ft[3].probability = "38%"

\* C2 witness: the scenario's request was answered.
C2_Witness ==
    \E r \in DOMAIN pc :
        /\ pc[r] = "done" /\ req[r] = BurnleyChelsea
        /\ res[r].status = 200
        /\ res[r].body.match = "Burnley vs Chelsea (Premier League)"

\* A body without one of the three fields, or with an empty one.
LacksField(b) ==
    \E f \in {"homeTeam", "awayTeam", "league"} : b[f] = Absent \/ b[f] = ""

\* C6: in server.js a request whose body lacks (or has empty) any of homeTeam,
\* awayTeam, league is answered 400 with success:false and neither the expert
\* provider nor the blender nor the derivers run for it; a request with the
\* three fields non-empty is never answered 400.
C6_ValidationGate ==
    \A r \in DOMAIN pc :
        /\ LacksField(req[r]) => trace[r] = <<>>
        /\ (pc[r] = "done" /\ ~err[r].raised) =>
              IF LacksField(req[r])
              THEN res[r].status = 400 /\ res[r].body.success = FALSE
              ELSE res[r].status # 400

\* C6 witness: a body missing only its league was refused while a complete one
\* was answered.
C6_Witness ==
    \E r1, r2 \in DOMAIN pc :
        /\ pc[r1] = "done" /\ pc[r2] = "done"
        /\ req[r1] = [BurnleyChelsea EXCEPT !.league = Absent]
        /\ res[r1] = MissingFieldsResponse
        /\ req[r2] = BurnleyChelsea /\ res[r2].status = 200

\* C9: two runs of /predict on the same request, with the same provider data,
\* send the same response, whatever was handled before or in between.
C9_SameRequestSameResponse ==
    \A r1, r2 \in DOMAIN pc :
        (/\ pc[r1] = "done" /\ pc[r2] = "done"
         /\ req[r1] = req[r2] /\ err[r1] = err[r2])
            => res[r1] = res[r2]

\* C9 witness: two requests with the same complete body were both answered 200.
C9_Witness ==
    \E r1, r2 \in DOMAIN pc :
        /\ r1 # r2
        /\ pc[r1] = "done" /\ pc[r2] = "done"
        /\ req[r1] = BurnleyChelsea /\ req[r2] = BurnleyChelsea
        /\ res[r1].status = 200 /\ res[r2].status = 200

(***************************************************************************)
(* The variants of the service that ask API-Sports (part_000, part_001,    *)
(* part_002).  Probabilities of the sources are kept in percent (0.21 is   *)
(* 21); consensus probabilities, printed with one decimal, in tenths of a  *)
(* percent.  A JavaScript number is a record so that NaN has a place.      *)
(***************************************************************************)
ApiVariants == {"part_000", "part_001", "part_002"}

Num(n) == [nan |-> FALSE, v |-> n]
NaN == [nan |-> TRUE, v |-> 0]

\* A property of a JSON object: defined with a numeric text, or not there.
Field(n) == [defined |-> TRUE, v |-> n]
Undefined == [defined |-> FALSE, v |-> 0]

\* Number(x) / 100 in percent units: Number(undefined) is NaN.
NumberOf(f) == IF f.defined THEN Num(f.v) ELSE NaN

\* String.prototype.toLowerCase on the names in use.
toLowerCase ==
    [n \in {"", "Burnley", "BURNLEY", "Chelsea", "chelsea", "Arsenal",
            "Premier League", "La Liga"} |->
        CASE n \in {"Burnley", "BURNLEY"} -> "burnley"
          [] n \in {"Chelsea", "chelsea"} -> "chelsea"
          [] n = "Arsenal" -> "arsenal"
          [] n = "Premier League" -> "premier league"
          [] n = "La Liga" -> "la liga"
          [] OTHER -> ""]

\* A body field inside a template literal.
Str(v) == IF v = Absent THEN "undefined" ELSE v

aiPrediction == [source |-> "AI", win |-> Num(21), draw |-> Num(19), lose |-> Num(60)]
expertPrediction ==
    [source |-> "Expert", win |-> Num(22), draw |-> Num(18), lose |-> Num(60)]

NoOddsSource == [set |-> FALSE, win |-> NaN, draw |-> NaN, lose |-> NaN]

RECURSIVE SumOf(_, _, _)
SumOf(sources, key, i) ==
    IF i > Len(sources) THEN 0 ELSE sources[i][key].v + SumOf(sources, key, i + 1)

\* blendProbabilities (part_000 48-63): the mean of each key over the sources,
\* times 100, with one decimal.  A NaN in any source makes the mean NaN.
blendProbabilities(sources) ==
    LET avg(key) ==
            IF \E i \in DOMAIN sources : sources[i][key].nan THEN NaN
            ELSE Num(Round(10 * SumOf(sources, key, 1), Len(sources)))
    IN  [probabilities |-> [win |-> avg("win"), draw |-> avg("draw"),
                            lose |-> avg("lose")],
         sources |-> [i \in DOMAIN sources |-> sources[i].source]]

\* confidence (part_000 65) on tenths of a percent; NaN >= 70 is false.
confidence(p) ==
    IF p.nan THEN "Low"
    ELSE IF p.v >= 700 THEN "High" ELSE IF p.v >= 500 THEN "Medium" ELSE "Low"

\* (1 / x).toFixed(2) for a source probability x (part_000 202).
oddsPrice(x) ==
    IF x.nan THEN "NaN"
    ELSE IF x.v = 0 THEN "Infinity" ELSE toFixed2(Round(10000, x.v))

(***************************************************************************)
(* What API-Sports can send back.  An axios call rejects ("error"),        *)
(* resolves with a payload that has no response list ("malformed"), or     *)
(* resolves with a response list ("ok").                                   *)
(***************************************************************************)
Reply(kind, response) == [kind |-> kind, response |-> response]

Fixture(home, away, id) == [home |-> home, away |-> away, id |-> id]

FixtureReplies ==
    {Reply("error", <<>>), Reply("malformed", <<>>), Reply("ok", <<>>),
     Reply("ok", <<Fixture("Arsenal", "Chelsea", 7)>>),
     Reply("ok", <<Fixture("Arsenal", "Chelsea", 7),
                   Fixture("BURNLEY", "chelsea", 1001)>>)}

NoPercent == [win_home |-> Undefined, win_draw |-> Undefined, win_away |-> Undefined]
NoApiData ==
    [present |-> FALSE, hasPercent |-> FALSE, percent |-> NoPercent, advice |-> ""]
ApiData(hasPercent, percent, advice) ==
    [present |-> TRUE, hasPercent |-> hasPercent, percent |-> percent,
     advice |-> advice]

PredictionReplies ==
    {Reply("error", <<>>), Reply("malformed", <<>>), Reply("ok", <<>>),
     Reply("ok", <<ApiData(FALSE, NoPercent, "Double chance : draw or Chelsea")>>),
     Reply("ok", <<ApiData(TRUE, [win_home |-> Field(45), win_draw |-> Field(25),
                                  win_away |-> Field(30)],
                           "Double chance : draw or Chelsea")>>),
     Reply("ok", <<ApiData(TRUE, [win_home |-> Undefined, win_draw |-> Field(25),
                                  win_away |-> Field(30)], "")>>)}

NoFixtureData ==
    [present |-> FALSE, hasFixture |-> FALSE, home |-> "", away |-> "",
     date |-> "", venue |-> "", odds |-> FALSE]
FixtureData(hasFixture, home, away, date, venue, odds_) ==
    [present |-> TRUE, hasFixture |-> hasFixture, home |-> home, away |-> away,
     date |-> date, venue |-> venue, odds |-> odds_]

DetailsReplies ==
    {Reply("error", <<>>), Reply("malformed", <<>>), Reply("ok", <<>>),
     Reply("ok", <<FixtureData(FALSE, "", "", "", "", FALSE)>>),
     Reply("ok", <<FixtureData(TRUE, "Burnley", "Chelsea",
                               "2025-11-08T15:00:00+00:00", "Turf Moor", TRUE)>>)}

\* response[0] of a reply, undefined on an empty list.
First(response, undefined) == IF response = <<>> THEN undefined ELSE response[1]

\* The locals of the API handlers (part_000 110-113).  failed records that
\* the lookup did not deliver a consensus source: a rejected call, a payload
\* that made the handler throw, no fixture found, or predictions that carry
\* no complete percent object.
NoApiLocals ==
    [apiOddsSource |-> NoOddsSource, apiData |-> NoApiData, fixtureId |-> 0,
     fixtureData |-> NoFixtureData, failed |-> FALSE]

\* Array.prototype.find over the fixture list with the handler's predicate
\* (part_000 124-128): "throw" when a toLowerCase is called on undefined.
RECURSIVE findFixture(_, _, _, _)
findFixture(response, homeTeam, awayTeam, i) ==
    IF i > Len(response) THEN [kind |-> "none", id |-> 0]
    ELSE IF homeTeam = Absent THEN [kind |-> "throw", id |-> 0]
    ELSE IF toLowerCase[response[i].home] # toLowerCase[homeTeam]
         THEN findFixture(response, homeTeam, awayTeam, i + 1)
    ELSE IF awayTeam = Absent THEN [kind |-> "throw", id |-> 0]
    ELSE IF toLowerCase[response[i].away] # toLowerCase[awayTeam]
         THEN findFixture(response, homeTeam, awayTeam, i + 1)
    ELSE [kind |-> "found", id |-> response[i].id]

\* The sources the consensus is taken over (part_000 156-157).
consensusSources(l) ==
    IF l.apiOddsSource.set
    THEN <<aiPrediction, expertPrediction,
           [source |-> "OddsAPI", win |-> l.apiOddsSource.win,
            draw |-> l.apiOddsSource.draw, lose |-> l.apiOddsSource.lose]>>
    ELSE <<aiPrediction, expertPrediction>>

\* The odds object of the response; an undefined value leaves no key in the
\* JSON text and is kept as Absent (part_000 201-205).
oddsPrices(l) ==
    IF l.apiOddsSource.set
    THEN [homeWin |-> oddsPrice(l.apiOddsSource.win),
          draw |-> oddsPrice(l.apiOddsSource.draw),
          awayWin |-> oddsPrice(l.apiOddsSource.lose)]
    ELSE [homeWin |-> Absent, draw |-> Absent, awayWin |-> Absent]

\* The options of the "1X2 (Match Result)" market (part_000 162-169).
resultOptions(body, consensus) ==
    LET p == consensus.probabilities
    IN  <<[label |-> "1 = " \o Str(body.homeTeam), probability |-> p.win,
           confidence |-> confidence(p.win)],
          [label |-> "X = Draw", probability |-> p.draw,
           confidence |-> confidence(p.draw)],
          [label |-> "2 = " \o Str(body.awayTeam), probability |-> p.lose,
           confidence |-> confidence(p.lose)]>>

expertNotes(l) ==
    IF l.apiData.advice # "" THEN l.apiData.advice
    ELSE "Consensus from AI, experts, and markets."

\* showLeague of part_001 (37-38).
showLeague(league) ==
    LET displayLeague == IF Falsy(league) THEN "" ELSE league
    IN  IF toLowerCase[displayLeague] = "premier league" THEN "Premier League"
        ELSE displayLeague

\* Building the argument of res.json throws in part_000 when the fixture
\* details are an object without a fixture property (part_000 191).
responseThrows(v, l) ==
    v = "part_000" /\ l.fixtureData.present /\ ~l.fixtureData.hasFixture

\* The argument of res.json (part_000 190-206, part_001 175-185, part_002
\* 93-110).  The markets with fixed numbers, the rationale texts and the
\* statistics, events and lineups passed through are left out.
apiBody(v, body, l) ==
    LET consensus == blendProbabilities(consensusSources(l))
        vs == Str(body.homeTeam) \o " vs " \o Str(body.awayTeam)
    IN  CASE v = "part_000" ->
               [match |-> IF l.fixtureData.present
                          THEN l.fixtureData.home \o " vs " \o l.fixtureData.away
                          ELSE vs,
                kickoff |-> IF l.fixtureData.present THEN l.fixtureData.date
                            ELSE Absent,
                venue |-> l.fixtureData.venue,
                odds |-> IF l.fixtureData.present /\ l.fixtureData.odds
                         THEN "fixture odds"
                         ELSE IF l.apiData.present THEN "predictions" ELSE "{}",
                consensus |-> consensus,
                markets |-> resultOptions(body, consensus),
                expert_notes |-> expertNotes(l),
                odds_prices |-> oddsPrices(l)]
          [] v = "part_001" ->
               [match |-> vs \o " (" \o showLeague(body.league) \o ")",
                consensus |-> consensus,
                markets |-> resultOptions(body, consensus),
                expert_notes |-> expertNotes(l),
                odds |-> oddsPrices(l)]
          [] OTHER ->
               [match |-> vs \o " (" \o Str(body.league) \o ")",
                consensus |-> consensus,
                predictions |->
                    <<[market |-> "Full Time Result",
                       probability |-> consensus.probabilities.win,
                       confidence |-> confidence(consensus.probabilities.win)]>>,
                expert_notes |-> expertNotes(l),
                odds |-> oddsPrices(l)]

\* The handler from the end of its inner try to its response (part_000
\* 156-209): res.json, or next(err) and the error handler.
Finish(r, l) ==
    /\ loc' = [loc EXCEPT ![r] = l]
    /\ pc' = [pc EXCEPT ![r] = "done"]
    /\ IF responseThrows(variant, l)
       THEN LET e == Error(0, "Cannot read properties of undefined (reading 'teams')")
            IN  /\ err' = [err EXCEPT ![r] = e]
                /\ res' = [res EXCEPT ![r] = errorHandler(e)]
                /\ trace' = [trace EXCEPT ![r] = Append(@, "next(err)")]
       ELSE /\ res' = [res EXCEPT ![r] =
                          [status |-> 200, body |-> apiBody(variant, req[r], l)]]
            /\ trace' = [trace EXCEPT ![r] = Append(@, "res.json")]
            /\ UNCHANGED err

\* POST /predict of the API variants up to the first axios call (part_000
\* 91-122).  No field of the body is validated.
ApiEntry(r) ==
    /\ variant \in ApiVariants /\ pc[r] = "predict"
    /\ trace' = [trace EXCEPT ![r] = Append(@, "GET fixtures")]
    /\ pc' = [pc EXCEPT ![r] = "awaitFixtures"]
    /\ UNCHANGED <<variant, req, loc, err, res, sweepVars>>

\* The fixtures step asking once more when its first call brought no fixture.
FixturesSettleRetrying(r, reply) ==
    /\ variant \in ApiVariants /\ pc[r] = "awaitFixtures"
    /\ LET found == IF reply.kind = "ok"
                    THEN findFixture(reply.response, req[r].homeTeam,
                                     req[r].awayTeam, 1)
                    ELSE [kind |-> "throw", id |-> 0]
       IN  IF found.kind = "found" /\ found.id # 0
           THEN /\ loc' = [loc EXCEPT ![r].fixtureId = found.id]
                /\ trace' = [trace EXCEPT ![r] = Append(@, "GET predictions")]
                /\ pc' = [pc EXCEPT ![r] = "awaitPredictions"]
                /\ UNCHANGED <<err, res>>
           ELSE IF Len(trace[r]) = 1
           THEN /\ trace' = [trace EXCEPT ![r] = Append(@, "GET fixtures")]
                /\ UNCHANGED <<loc, pc, err, res>>
           ELSE Finish(r, [loc[r] EXCEPT !.failed = TRUE])
    /\ UNCHANGED <<variant, req, sweepVars>>

\* The fixtures call settled (part_000 116-139).  A rejection, a payload
\* without a response list or a throwing predicate lands in the catch; with
\* no fixture id the handler goes on to its response.
FixturesSettle(r, reply) ==
    /\ variant \in ApiVariants /\ pc[r] = "awaitFixtures"
    /\ LET found == IF reply.kind = "ok"
                    THEN findFixture(reply.response, req[r].homeTeam,
                                     req[r].awayTeam, 1)
                    ELSE [kind |-> "throw", id |-> 0]
       IN  IF found.kind = "found" /\ found.id # 0
           THEN /\ loc' = [loc EXCEPT ![r].fixtureId = found.id]
                /\ trace' = [trace EXCEPT ![r] = Append(@, "GET predictions")]
                /\ pc' = [pc EXCEPT ![r] = "awaitPredictions"]
                /\ UNCHANGED <<err, res>>
           ELSE Finish(r, [loc[r] EXCEPT !.failed = TRUE])
    /\ UNCHANGED <<variant, req, sweepVars>>

\* The predictions call settled (part_000 140-150).
PredictionsSettle(r, reply) ==
    /\ variant \in ApiVariants /\ pc[r] = "awaitPredictions"
    /\ IF reply.kind # "ok"
       THEN Finish(r, [loc[r] EXCEPT !.failed = TRUE])
       ELSE LET data == First(reply.response, NoApiData)
                source == IF data.present /\ data.hasPercent
                          THEN [set |-> TRUE,
                                win |-> NumberOf(data.percent.win_home),
                                draw |-> NumberOf(data.percent.win_draw),
                                lose |-> NumberOf(data.percent.win_away)]
                          ELSE NoOddsSource
                complete == /\ source.set /\ ~source.win.nan
                            /\ ~source.draw.nan /\ ~source.lose.nan
                l == [loc[r] EXCEPT !.apiData = data, !.apiOddsSource = source,
                                    !.failed = ~complete]
            IN  IF variant = "part_000"
                THEN /\ loc' = [loc EXCEPT ![r] = l]
                     /\ trace' = [trace EXCEPT ![r] =
                                     Append(@, "GET fixture details")]
                     /\ pc' = [pc EXCEPT ![r] = "awaitDetails"]
                     /\ UNCHANGED <<err, res>>
                ELSE Finish(r, l)
    /\ UNCHANGED <<variant, req, sweepVars>>

\* getFixtureDetails settled (part_000 76-85, 150-154): a rejection lands in
\* the catch with the odds source already set.
DetailsSettle(r, reply) ==
    /\ variant = "part_000" /\ pc[r] = "awaitDetails"
    /\ IF reply.kind # "ok"
       THEN Finish(r, [loc[r] EXCEPT !.failed = TRUE])
       ELSE LET data == First(reply.response, NoFixtureData)
            IN  Finish(r, [loc[r] EXCEPT
                              !.fixtureData = data,
                              !.failed = @ \/ ~data.present \/ ~data.hasFixture])
    /\ UNCHANGED <<variant, req, sweepVars>>

InitApi ==
    \E v \in ApiVariants : InitService(v, MaxApiReq, NoApiLocals)

NextApi ==
    \/ \E r \in DOMAIN pc, b \in Bodies : Receive(r, b)
    \/ \E r \in DOMAIN pc, e \in ParserErrors : RejectBody(r, e)
    \/ \E r \in DOMAIN pc : ApiEntry(r)
    \/ \E r \in DOMAIN pc, reply \in FixtureReplies : FixturesSettle(r, reply)
    \/ \E r \in DOMAIN pc, reply \in PredictionReplies : PredictionsSettle(r, reply)
    \/ \E r \in DOMAIN pc, reply \in DetailsReplies : DetailsSettle(r, reply)

SpecApi == InitApi /\ [][NextApi]_vars

\* The response of an API variant to a body when no lookup result is at hand.
NoLookupResponse(v, body) ==
    [status |-> 200, body |-> apiBody(v, body, NoApiLocals)]

\* C7: in the API variants, whenever the external lookup fails (a rejected
\* call, no matching fixture, a malformed or incomplete payload) the response
\* has status 200, the keys of the response without lookup, and the consensus
\* of the AI and expert sources alone.
C7_LookupFailureFallsThrough ==
    \A r \in DOMAIN pc :
        (variant \in ApiVariants /\ pc[r] = "done" /\ loc[r].failed) =>
            /\ res[r].status = 200
            /\ DOMAIN res[r].body = DOMAIN NoLookupResponse(variant, req[r]).body
            /\ res[r].body.consensus
                   = NoLookupResponse(variant, req[r]).body.consensus

\* C8 as stated: every error passed to the error handler is answered 500 with
\* success:false and the error's message.
C8_EveryErrorIs500 ==
    \A r \in DOMAIN pc :
        err[r].raised =>
            /\ res[r].status = 500
            /\ res[r].body = [success |-> FALSE, error |-> err[r].message]

\* C8: an error passed to the error handler is answered with success:false and
\* the error's message ("Internal Server Error" when it has none), under the
\* status the error carries (express.json: 400 for a malformed body, 413 for
\* an oversized one) and under 500 when it carries none, as every error
\* thrown by the route handlers; no handler sends an error response itself.
C8_ErrorStatusOr500 ==
    \A r \in DOMAIN pc :
        /\ err[r].raised =>
              /\ pc[r] = "done"
              /\ res[r].status = (IF err[r].status # 0 THEN err[r].status ELSE 500)
              /\ res[r].body.success = FALSE
              /\ res[r].body.error = (IF err[r].message # "" THEN err[r].message
                                      ELSE "Internal Server Error")
              /\ (trace[r] # <<>> => res[r].status = 500)
        /\ (pc[r] = "done" /\ ~err[r].raised) => res[r].status = 200

\* C8 witness: the route handler threw after its lookups and the error handler
\* answered 500 with the error's message.
C8_Witness ==
    \E r \in DOMAIN pc :
        /\ pc[r] = "done" /\ err[r].raised /\ err[r].status = 0
        /\ trace[r][Len(trace[r])] = "next(err)"
        /\ res[r].status = 500
        /\ res[r].body.error = err[r].message

(***************************************************************************)
(* Blender sweep: adjustProbabilities applied to anchor objects that lack  *)
(* some of their keys.  An object is a function on the keys it has.        *)
(***************************************************************************)
Restrict(obj, keys) == [k \in keys |-> obj[k]]

\* obj[k] as a JavaScript value: undefined for a key the object lacks.
Lookup(obj, k) == IF k \in DOMAIN obj THEN Field(obj[k]) ELSE Undefined

\* blend on JavaScript values (server.js 64): undefined * 0.6 is NaN, and
\* Math.round(NaN) is NaN.
blendValues(m, e) == IF m.defined /\ e.defined THEN Num(blend(m.v, e.v)) ELSE NaN

\* adjustProbabilities on such objects (server.js 61-76): no key is tested
\* and nothing is thrown; thrown names the error of a call that throws.
adjustProbabilitiesOf(defaults_, experts_) ==
    [thrown |-> "",
     value |-> [k \in MarketKeys |->
                   blendValues(Lookup(defaults_, k),
                               Lookup(experts_, ExpertKey(k)))]]

InitBlend ==
    /\ stage = "input"
    /\ \E D \in SUBSET MarketKeys, E \in SUBSET MarketKeys :
          LET stub == fetchExpertData("Burnley", "Chelsea", "Premier League")
          IN  /\ defaults = Restrict(aiBase, MarketKeys \ D)
              /\ experts = Restrict(stub, (DOMAIN stub) \ {ExpertKey(k) : k \in E})
    /\ adjusted = None /\ markets = None /\ prediction = None
    /\ probPercent = None /\ odds = None
    /\ NoService

Blend ==
    /\ stage = "input" /\ stage' = "done"
    /\ adjusted' = adjustProbabilitiesOf(defaults, experts)
    /\ UNCHANGED <<defaults, experts, markets, prediction, oddsVars, serviceVars>>

NextBlend == Blend

SpecBlend == InitBlend /\ [][NextBlend]_vars

\* A market key one of the two inputs lacks.
MissingKeys ==
    {k \in MarketKeys : k \notin DOMAIN defaults \/ ExpertKey(k) \notin DOMAIN experts}

\* C11: when a required market key is missing from the baseline or from the
\* expert input, the blender fails with a MissingMarketKey error and returns
\* no blended object.
C11_MissingKeyFails ==
    (stage = "done" /\ MissingKeys # {}) => adjusted.thrown = "MissingMarketKey"

\* C12: whatever integers the two providers supply, below 0 and above 100
\* included, every value adjustProbabilities returns is in [0,100].
C12_BlenderClamps ==
    stage = "done" => \A k \in MarketKeys : adjusted[k] \in Percent

\* C13: for a blended over25 in [0,100] the Over values of deriveTotals do not
\* increase with the line: Over0.5 >= Over1.5 >= ... >= Over5.5.
C13_OverNonIncreasing ==
    (stage = "done" /\ ValidAnchors /\ adjusted.over25 \in Percent) =>
        \A i \in 1 .. (Len(TotalLines) - 1) :
            markets.totals.over[TotalLines[i]]
                >= markets.totals.over[TotalLines[i + 1]]

\* p is an integer nearest to num / den (either one at a tie).
Nearest(p, num, den) ==
    /\ 2 * (den * p - num) <= den
    /\ 2 * (num - den * p) <= den

\* prob is the display of the rounded, clamped value of num / den.
IsAverage(prob, num, den) ==
    \E p \in {num \div den, (num \div den) + 1} :
        /\ Nearest(p, num, den)
        /\ prob = PctTable[Max(0, Min(100, p))]

\* The entries of the combos array that do not involve double chance x BTTS
\* report the average of their two constituents.
GoalsCombosAverage(combos) ==
    LET dc == markets.fulltime.dc
        totals == markets.totals
        btts == adjusted.btts
    IN  /\ Len(combos) = 39
        /\ \A i \in 1 .. 30 :
              LET key == DcKeys[((i - 1) \div 10) + 1]
                  l == ComboLines[(((i - 1) % 10) \div 2) + 1]
                  side == IF i % 2 = 1 THEN "Over" ELSE "Under"
                  v == IF i % 2 = 1 THEN totals.over[l] ELSE totals.under[l]
              IN  /\ combos[i].outcome = ComboLabel[key][side][l]
                  /\ IsAverage(combos[i].probability, dc[key] + v, 2)
        /\ combos[37].outcome = "BTTS Yes + Over 2.5"
        /\ IsAverage(combos[37].probability,
                     55 * btts + 45 * totals.over["2.5"], 100)
        /\ combos[38].outcome = "BTTS Yes + Under 2.5"
        /\ IsAverage(combos[38].probability,
                     45 * btts + 55 * totals.under["2.5"], 100)
        /\ combos[39].outcome = "No Team To Score"
        /\ IsAverage(combos[39].probability,
                     8 * Max(0, 100 - btts) + 2 * totals.under["2.5"], 10)

\* C14 as stated: every combo reports the rounded, clamped fixed-weight
\* average of its constituents, the BTTS constituent of a double chance x BTTS
\* entry being the blended btts (Yes) or 100 - btts (No).
C14_CombosAverageBlendedBtts ==
    stage = "done" =>
        LET combos == prediction.body.combos
            dc == markets.fulltime.dc
        IN  /\ GoalsCombosAverage(combos)
            /\ \A i \in 31 .. 36 :
                  LET key == DcKeys[((i - 31) \div 2) + 1]
                  IN  IsAverage(combos[i].probability,
                                dc[key] + (IF i % 2 = 1 THEN adjusted.btts
                                           ELSE 100 - adjusted.btts), 2)

\* C14: every combo reports the rounded, clamped fixed-weight average of two
\* constituents: double chance and the Over/Under value of the line (0.5/0.5);
\* btts and Over 2.5 (0.55/0.45); btts and Under 2.5 (0.45/0.55);
\* max(0, 100 - btts) and Under 2.5 (0.8/0.2); and, for double chance x BTTS
\* (0.5/0.5), double chance and pYes = round(0.6 * btts + 24) for Yes or
\* max(0, 100 - pYes) for No, not the blended btts itself.
C14_CombosAverage ==
    stage = "done" =>
        LET combos == prediction.body.combos
            dc == markets.fulltime.dc
            num == 6 * adjusted.btts + 240
        IN  /\ GoalsCombosAverage(combos)
            /\ \E pYes \in {num \div 10, (num \div 10) + 1} :
                  /\ Nearest(pYes, num, 10)
                  /\ \A i \in 31 .. 36 :
                        LET key == DcKeys[((i - 31) \div 2) + 1]
                            yes == i % 2 = 1
                        IN  /\ combos[i].outcome
                                  = ComboLabel[key]["BTTS"][IF yes THEN "Yes" ELSE "No"]
                            /\ IsAverage(combos[i].probability,
                                         dc[key] + (IF yes THEN pYes
                                                    ELSE Max(0, 100 - pYes)), 2)

\* C14 witness: with btts at 100 the "1X + BTTS Yes" entry shows the average of
\* 62 and pYes = 84.
C14_Witness ==
    /\ stage = "done"
    /\ adjusted.btts = 100 /\ markets.fulltime.dc["1X"] = 62
    /\ prediction.body.combos[31].outcome = "Double Chance 1X + BTTS Yes"
    /\ prediction.body.combos[31].probability = "73%"

\* The entries of the response that carry odds and a suggestion.
TabEntries(body) ==
    LET ofSeq(q) == {q[i] : i \in DOMAIN q}
        bare(e) == [probability |-> e.probability, odds |-> e.odds,
                    suggestion |-> e.suggestion]
    IN  {bare(e) : e \in ofSeq(body.goals) \cup ofSeq(body.halftime)
                        \cup ofSeq(body.corners) \cup ofSeq(body.cards)
                        \cup ofSeq(body.handicaps) \cup ofSeq(body.combos)}

SuggestionEntries(body) ==
    TabEntries(body)
        \cup {[probability |-> e.probability, odds |-> e.odds,
               suggestion |-> e.suggestion] :
                 e \in {body.all.fulltime_result[i] : i \in 1 .. 3}
                        \cup {body.all.combos[i] : i \in DOMAIN body.all.combos}}

\* C15: every entry that carries a suggestion has High exactly when its
\* displayed probability is at least 70, Medium when it is at least 50 and
\* below 70, Low otherwise, whatever the anchors.
C15_SuggestionMatchesProbability ==
    stage = "done" =>
        \A e \in SuggestionEntries(prediction.body) :
            /\ IsPct(e.probability)
            /\ LET n == PctValue(e.probability)
               IN  e.suggestion = (IF n >= 70 THEN "High"
                                   ELSE IF n >= 50 THEN "Medium" ELSE "Low")

\* C15 witness: an entry at exactly 70% is High and one printed from a value
\* above 100 is High at 100%.
C15_Witness ==
    /\ stage = "done"
    /\ prediction.body.goals[1].probability = "70%"
    /\ prediction.body.goals[1].suggestion = "High"
    /\ adjusted.cornersHigh > 100
    /\ prediction.body.corners[1].probability = "100%"
    /\ prediction.body.corners[1].suggestion = "High"

\* C16: the odds of every entry of the tab arrays and combos are the 2-decimal
\* text of clamp(1 / (p / 100), 1.1, 10.0), p being the entry's own displayed
\* probability clamped to [1,99].
C16_OddsFromOwnProbability ==
    stage = "done" =>
        \A e \in TabEntries(prediction.body) :
            /\ IsPct(e.probability)
            /\ LET p == Max(1, Min(99, PctValue(e.probability)))
               IN  e.odds = Fixed2Table[Max(110, Min(1000, Round(10000, p)))]

\* C16 witness: entries printed from a value above 100 and from one below 0
\* are priced at the two caps.
C16_Witness ==
    /\ stage = "done"
    /\ adjusted.cornersHigh > 100
    /\ prediction.body.corners[1].probability = "100%"
    /\ prediction.body.corners[1].odds = "1.10"
    /\ prediction.body.corners[2].probability = "0%"
    /\ prediction.body.corners[2].odds = "10.00"

(***************************************************************************)
(* The API variants with their scheduling.  Node runs a handler that is    *)
(* ready to run; whether and when API-Sports answers is not the service's  *)
(* to decide, and the axios calls pass no timeout (part_000 116-122,       *)
(* 133-139, 77-83), so nothing but a reply ends an await.                  *)
(***************************************************************************)
SpecApiLive ==
    /\ InitApi
    /\ [][NextApi]_vars
    /\ WF_vars(\E r \in 1 .. MaxApiReq : ApiEntry(r))

\* C17: in the API variants every request handed to the /predict handler is
\* eventually answered, also when API-Sports never answers.
C17_EveryRequestAnswered ==
    \A r \in 1 .. MaxApiReq : (pc[r] = "predict") ~> (pc[r] = "done")

\* C19: in the API variants too, a request whose body lacks homeTeam, awayTeam
\* or league is answered 400 with success:false, never 200.
C19_ApiVariantsValidate ==
    \A r \in DOMAIN pc :
        (/\ pc[r] = "done" /\ ~err[r].raised
         /\ \E f \in {"homeTeam", "awayTeam", "league"} : req[r][f] = Absent)
            => /\ res[r].status = 400
               /\ res[r].body.success = FALSE

\* C20: the body of an error response is success:false and an error string,
\* and the string is not the message of the error that was thrown.
C20_ErrorBodyGeneric ==
    \A r \in DOMAIN pc :
        (pc[r] = "done" /\ err[r].raised) =>
            /\ DOMAIN res[r].body = {"success", "error"}
            /\ res[r].body.success = FALSE
            /\ res[r].body.error # err[r].message

(***************************************************************************)
(* All four variants with MaxReq requests in flight at once: a handler     *)
(* runs from one await to the next and any other request's handler may run *)
(* in between.                                                             *)
(***************************************************************************)
IsolationBodies ==
    {BurnleyChelsea, [BurnleyChelsea EXCEPT !.league = "La Liga"],
     [BurnleyChelsea EXCEPT !.awayTeam = Absent]}

InitIsolation ==
    \/ InitService("server", MaxReq, NoLocals)
    \/ \E v \in ApiVariants : InitService(v, MaxReq, NoApiLocals)

NextIsolation ==
    \/ \E r \in DOMAIN pc, b \in IsolationBodies : Receive(r, b)
    \/ \E r \in DOMAIN pc : PredictEntry(r)
    \/ \E r \in DOMAIN pc : PredictResume(r)
    \/ \E r \in DOMAIN pc : ApiEntry(r)
    \/ \E r \in DOMAIN pc, reply \in FixtureReplies : FixturesSettle(r, reply)
    \/ \E r \in DOMAIN pc, reply \in PredictionReplies : PredictionsSettle(r, reply)
    \/ \E r \in DOMAIN pc, reply \in DetailsReplies : DetailsSettle(r, reply)

SpecIsolation == InitIsolation /\ [][NextIsolation]_vars

\* What one request owns: its position, body, locals, error, response, calls.
Own(r) == <<pc[r], req[r], loc[r], err[r], res[r], trace[r]>>

\* The response of server.js to a body, handled with no other request around.
ServerAlone(body) ==
    IF body.homeTeam \in {Absent, ""} \/ body.awayTeam \in {Absent, ""}
          \/ body.league \in {Absent, ""}
    THEN MissingFieldsResponse
    ELSE LET expertData == fetchExpertData(body.homeTeam, body.awayTeam,
                                           body.league)
         IN  [status |-> 200,
              body |-> buildPrediction(body.homeTeam, body.awayTeam, body.league,
                                       adjustProbabilities(aiBase, expertData),
                                       expertData)]

\* The response of an API variant as its handler builds it from the body and
\* from the locals of the same request.
ApiAlone(r) ==
    IF err[r].raised THEN errorHandler(err[r])
    ELSE [status |-> 200, body |-> apiBody(variant, req[r], loc[r])]

\* C18: under every interleaving of the handlers at their awaits, a request's
\* response is the one it gets when handled alone (a function of its own
\* body, and in the API variants of the replies to its own calls), and a step
\* taken for one request changes nothing that another request owns.
C18_RequestsIsolated ==
    /\ [](\A r \in 1 .. MaxReq :
            pc[r] = "done" =>
                res[r] = (IF variant = "server" THEN ServerAlone(req[r])
                          ELSE ApiAlone(r)))
    /\ [][\A r, q \in 1 .. MaxReq :
             (r # q /\ Own(r)' # Own(r)) => Own(q)' = Own(q)]_vars

\* C18 witness: two requests with different bodies were in flight together,
\* one answered while the other was still at its await.
C18_Witness ==
    /\ variant = "server"
    /\ pc[1] = "done" /\ pc[2] = "awaitExpert"
    /\ req[1] = BurnleyChelsea
    /\ req[2] = [BurnleyChelsea EXCEPT !.league = "La Liga"]
    /\ res[1] = ServerAlone(BurnleyChelsea)
    /\ res[1].body.match = "Burnley vs Chelsea (Premier League)"

\* The axios calls a handler made so far, in the order it made them.
ApiCalls(r) ==
    SelectSeq(trace[r], LAMBDA c : c \in {"GET fixtures", "GET predictions",
                                          "GET fixture details"})

\* C21: in the API variants a request asks each endpoint at most once and in
\* the order fixtures, predictions, fixture details (the last in part_000
\* only); predictions and fixture details are asked only with the id of a
\* matching fixture, and nothing is asked again after a failure.
C21_EachEndpointOnce ==
    \A r \in DOMAIN pc :
        LET calls == ApiCalls(r)
            order == IF variant = "part_000"
                     THEN <<"GET fixtures", "GET predictions", "GET fixture details">>
                     ELSE <<"GET fixtures", "GET predictions">>
        IN  /\ Len(calls) <= Len(order)
            /\ calls = SubSeq(order, 1, Len(calls))
            /\ Len(calls) >= 2 => loc[r].fixtureId # 0
            /\ (pc[r] = "done" /\ ~err[r].raised) =>
                  trace[r] = Append(calls, "res.json")

\* C21 witness: a part_000 request was answered after its three calls, the
\* last of which was rejected.
C21_Witness ==
    \E r \in DOMAIN pc :
        /\ variant = "part_000" /\ pc[r] = "done" /\ res[r].status = 200
        /\ loc[r].failed /\ loc[r].apiOddsSource.set
        /\ ~loc[r].fixtureData.present
        /\ ApiCalls(r) = <<"GET fixtures", "GET predictions", "GET fixture details">>

\* C22: every request of server.js gets exactly one response. A request is
\* finished exactly when a response was sent, every step that finishes a
\* request sends its response in that step, a handler at its entry can always
\* take its step, and a response once sent is never replaced by another one.
C22_ExactlyOneResponse ==
    /\ [](\A r \in 1 .. MaxReq :
            /\ (pc[r] = "done") <=> (res[r].status # 0)
            /\ pc[r] = "predict" => ENABLED PredictEntry(r)
            /\ err[r].raised => pc[r] = "done")
    /\ [][\A r \in 1 .. MaxReq :
            /\ pc[r] = "awaitExpert" /\ pc'[r] # pc[r] => res'[r].status = 200
            /\ res[r].status # 0 => /\ res'[r] = res[r]
                                    /\ pc'[r] = "done"
                                    /\ trace'[r] = trace[r]]_vars

\* C22 witness: one request was answered by res.json at the end of the
\* handler, the other one by the error handler.
C22_Witness ==
    \E r, q \in DOMAIN pc :
        /\ variant = "server"
        /\ pc[r] = "done" /\ ~err[r].raised /\ res[r].status = 200
        /\ trace[r][Len(trace[r])] = "res.json"
        /\ pc[q] = "done" /\ err[q].raised /\ res[q] = errorHandler(err[q])
        /\ trace[q] = <<>>

(***************************************************************************)
(* server.js answering MaxReq requests whose three fields are all present  *)
(* and differ from request to request.                                     *)
(***************************************************************************)
ValidBodies ==
    [homeTeam : {"Burnley", "Arsenal"}, awayTeam : {"Chelsea", "Arsenal"},
     league : {"Premier League", "La Liga"}]

InitContent == InitService("server", MaxReq, NoLocals)

NextContent ==
    \/ \E r \in DOMAIN pc, b \in ValidBodies : Receive(r, b)
    \/ \E r \in DOMAIN pc : PredictEntry(r)
    \/ \E r \in DOMAIN pc : PredictResume(r)

SpecContent == InitContent /\ [][NextContent]_vars

\* C23: the responses of server.js to two valid requests are equal in every
\* field but the match string, which names the request's own teams and
\* league; the expert data and blended values the handlers worked with are
\* equal too.
C23_OnlyMatchDependsOnRequest ==
    \A r1, r2 \in DOMAIN pc :
        (pc[r1] = "done" /\ pc[r2] = "done") =>
            /\ res[r1].status = 200 /\ res[r2].status = 200
            /\ res[r1].body.match = req[r1].homeTeam \o " vs " \o req[r1].awayTeam
                                       \o " (" \o req[r1].league \o ")"
            /\ [res[r1].body EXCEPT !.match = ""] = [res[r2].body EXCEPT !.match = ""]
            /\ loc[r1] = loc[r2]

\* C23 witness: two answered requests that differ in home team, away team and
\* league, and so in their match strings.
C23_Witness ==
    \E r1, r2 \in DOMAIN pc :
        /\ pc[r1] = "done" /\ pc[r2] = "done"
        /\ req[r1].homeTeam # req[r2].homeTeam
        /\ req[r1].awayTeam # req[r2].awayTeam
        /\ req[r1].league # req[r2].league
        /\ res[r1].body.match # res[r2].body.match
        /\ res[r1].body.goals = res[r2].body.goals

\* The probability a tab array reports for an outcome.
ProbabilityOf(tab, outcome) ==
    tab[CHOOSE i \in DOMAIN tab : tab[i].outcome = outcome].probability

\* C24: in one response of server.js a market reported in several places has
\* the same probability in each: the tab arrays agree with the all section and
\* with the detail sections bookings, corners_detail, goals_detail,
\* handicaps_detail and halves; in particular the halftime array's first-half
\* Over 1.5 and Under 1.5 goals equal halves.halftime_goals.
C24_SameMarketSameProbability ==
    \A r \in DOMAIN pc :
        (variant = "server" /\ pc[r] = "done" /\ res[r].status = 200) =>
            LET b == res[r].body
            IN  /\ ProbabilityOf(b.cards, "HT Over 1.5 Cards") = b.bookings.halftime.Over_1_5
                /\ ProbabilityOf(b.cards, "HT Under 1.5 Cards") = b.bookings.halftime.Under_1_5
                /\ ProbabilityOf(b.cards, "FT Over 3.5 Cards") = b.bookings.fulltime.Over_3_5
                /\ ProbabilityOf(b.cards, "FT Under 3.5 Cards") = b.bookings.fulltime.Under_3_5
                /\ ProbabilityOf(b.cards, "HT Over 1.5 Cards") = b.all.cards.ht_over_1_5
                /\ ProbabilityOf(b.cards, "FT Over 3.5 Cards") = b.all.cards.ft_over_3_5
                /\ ProbabilityOf(b.corners, "FT Over 9.5 Corners") = b.corners_detail.total.Over_9_5
                /\ ProbabilityOf(b.corners, "FT Under 9.5 Corners") = b.corners_detail.total.Under_9_5
                /\ ProbabilityOf(b.corners, "FT Over 9.5 Corners") = b.all.corners.ft_over_9_5
                /\ ProbabilityOf(b.corners, "Home Over 4.5 Corners") = b.corners_detail.team.Home_Over_4_5
                /\ ProbabilityOf(b.corners, "Away Over 4.5 Corners") = b.corners_detail.team.Away_Over_4_5
                /\ ProbabilityOf(b.goals, "Exactly 2 Goals") = b.goals_detail.exact_goals.Exactly_2
                /\ ProbabilityOf(b.goals, "Exactly 3 Goals") = b.goals_detail.exact_goals.Exactly_3
                /\ ProbabilityOf(b.goals, "Over 2.5 Goals") = b.popular.over_2_5_goals
                /\ ProbabilityOf(b.goals, "Over 2.5 Goals") = b.all.over_under_goals.Over["2.5"]
                /\ ProbabilityOf(b.handicaps, "Home -1 (European)") = b.all.handicap.home_minus_1
                /\ ProbabilityOf(b.handicaps, "Double Chance 1X") = b.all.double_chance["1X"]
                /\ ProbabilityOf(b.halftime, "1st Half Over 1.5 Goals") = b.all.halftime_markets.Over["1.5"]
                /\ ProbabilityOf(b.halftime, "1st Half Under 1.5 Goals") = b.all.halftime_markets.Under["1.5"]
                /\ ProbabilityOf(b.halftime, "1st Half Over 1.5 Goals") = b.halves.halftime_goals.Over_1_5
                /\ ProbabilityOf(b.halftime, "1st Half Under 1.5 Goals") = b.halves.halftime_goals.Under_1_5

\* The part of C24 that the responses do satisfy: every listed pair agrees but
\* the first-half goals pair, where the halftime array reports 46% and 54% and
\* halves.halftime_goals 48% and 52%.
C24_HalvesDisagree ==
    \A r \in DOMAIN pc :
        (variant = "server" /\ pc[r] = "done" /\ res[r].status = 200) =>
            LET b == res[r].body
            IN  /\ ProbabilityOf(b.cards, "HT Over 1.5 Cards") = b.bookings.halftime.Over_1_5
                /\ ProbabilityOf(b.cards, "FT Under 3.5 Cards") = b.bookings.fulltime.Under_3_5
                /\ ProbabilityOf(b.corners, "FT Over 9.5 Corners") = b.corners_detail.total.Over_9_5
                /\ ProbabilityOf(b.goals, "Exactly 2 Goals") = b.goals_detail.exact_goals.Exactly_2
                /\ ProbabilityOf(b.halftime, "1st Half Over 1.5 Goals") = b.all.halftime_markets.Over["1.5"]
                /\ ProbabilityOf(b.halftime, "1st Half Over 1.5 Goals") = "46%"
                /\ ProbabilityOf(b.halftime, "1st Half Under 1.5 Goals") = "54%"
                /\ b.halves.halftime_goals = [Over_1_5 |-> "48%", Under_1_5 |-> "52%"]

=============================================================================
